---- MODULE Spec2Model ----
(***************************************************************************)
(* Outpatient triage and routing: the intake form of app.py (widget state, *)
(* presets, submit, the optional explanation and the exports) and the      *)
(* routing engine triage/routing.py (normalize_conditions, route_patient). *)
(*                                                                         *)
(* Python lists filled by a multiselect hold distinct items and the engine *)
(* only tests membership and emptiness, so they are sets here.  Optional   *)
(* integers are <<>> (None) or <<v>>.  TLA+ strings are ASCII, so the      *)
(* typographic characters of the source strings are transliterated         *)
(* (curly apostrophe -> ', em/en dash -> -, >= sign -> >=, subscript 2 ->  *)
(* 2); no rule of the engine looks at those characters.                    *)
(***************************************************************************)
EXTENDS Integers, Sequences, FiniteSets, TLC

VARIABLES session, loaded, edits, submitted, inputs, result, page

vars == <<session, loaded, edits, submitted, inputs, result, page>>

-----------------------------------------------------------------------------
(* Option lists of app.py *)

InjuryWound == "Injury / wound"

CHIEF_COMPLAINTS ==
  { "Chest pain / pressure", "Shortness of breath", "Abdominal pain",
    "Headache", "Fever / infection symptoms", "Cough / sore throat",
    "Urinary symptoms", "Back pain", "Rash / skin issue",
    "Nausea / vomiting / diarrhea", InjuryWound, "Other" }

TREND_OPTIONS == { "Better", "Same", "Worse" }

HAPPENED_BEFORE_OPTIONS ==
  { "Yes - similar symptoms before", "No - first time", "Not sure" }

FEVER_OPTIONS == { "Yes", "No", "Don't know / can't check" }

PREGNANCY_OPTIONS == { "Yes", "No", "Not applicable" }

PCP_ACCESS_OPTIONS == { "Yes", "No" }

URGENT_ACCESS_OPTIONS == { "Yes", "No" }

SEX_OPTIONS == { "Female", "Male", "Intersex", "Prefer not to say" }

\* the age box: min_value, value and max_value
AGE_MIN == 0
AGE_DEFAULT == 30
AGE_MAX == 120

HeartDisease == "Heart disease / prior heart attack"
ChronicLung == "Chronic lung disease (asthma/COPD)"
Immunocompromised == "Immunocompromised (chemo, transplant, HIV, long-term steroids)"
NoneOfTheAbove == "None of the above"

RISK_CONDITIONS ==
  { HeartDisease, "Stroke / TIA history", "Diabetes", ChronicLung,
    "Kidney disease", Immunocompromised, NoneOfTheAbove }

UncontrolledBleeding == "Uncontrolled bleeding"

RED_FLAGS ==
  { "Trouble breathing at rest", "Fainting / nearly fainted", "New confusion",
    "Severe chest pain/pressure", "Blue lips/face", UncontrolledBleeding,
    "Signs of stroke (face droop, arm weakness, speech trouble)",
    "Severe allergic reaction (swelling of lips/tongue, hives + breathing trouble)",
    "Severe dehydration (unable to keep fluids down, very little urine)",
    "Severe abdominal pain with rigid belly",
    "Worst headache of life / sudden thunderclap headache",
    "High fever with stiff neck or rash",
    "Pregnancy + bleeding or severe abdominal pain" }

BleedingWontStop == "Bleeding that won't stop after 10 minutes of firm pressure"

INJURY_FLAGS ==
  { "Severe swelling", "Obvious deformity", "Unable to bear weight or use limb",
    "Numbness or tingling", "Bone visible or deep open wound", BleedingWontStop }

SEVERITY_MIN == 0
SEVERITY_MAX == 10

-----------------------------------------------------------------------------
(* Bounds of the exploration *)

\* at most this many widgets differ from the values the form was loaded with
\* (the defaults or a preset); edits counts them
MaxEdits == 2

\* the SpO2 texts typed are the integers within this distance of the threshold
Spo2Span == 1

-----------------------------------------------------------------------------
(* triage/routing.py *)

None == <<>>

Some(v) == <<v>>

RoutingResult(route, urgency, reasons, safety_notes) ==
  [route |-> route, urgency |-> urgency, reasons |-> reasons,
   safety_notes |-> safety_notes]

_is_checked(items) == items # {} /\ Cardinality(items) > 0

\* mutant: only the sentinel itself is dropped
normalize_conditions_drop_sentinel(conditions) == conditions \ { NoneOfTheAbove }

normalize_conditions(conditions) ==
  IF NoneOfTheAbove \in conditions THEN {} ELSE conditions

\* str.startswith
startswith(s, prefix) ==
  Len(s) >= Len(prefix) /\ SubSeq(s, 1, Len(prefix)) = prefix

safety ==
  << "If symptoms rapidly worsen, seek urgent evaluation.",
     "If you develop new red-flag symptoms (trouble breathing, fainting, severe chest pain, stroke signs), go to the ED." >>

\* the reason sentences
RedFlagReason == "One or more red-flag symptoms selected."
BleedingReason == "Uncontrolled bleeding criteria met."
Spo2ReasonPrefix == "Low oxygen saturation provided (SpO2="
InjuryEdReason == "Injury criteria suggests emergent evaluation (deformity/open wound/uncontrolled bleeding/neuro symptoms)."
InjuryUcReason == "Injury criteria suggests same-day evaluation (can't bear weight/severe swelling/high pain)."
InjurySelfCareReason == "No injury red flags; symptoms appear mild/stable by provided inputs."
ChestReason == "Chest pain/pressure with cardiac history."
SobReason == "Shortness of breath with chronic lung disease and worsening trend."
HeadacheReason == "Severe headache (>=7/10) and first-time occurrence."
FeverImmunoEdReason == "Fever in immunocompromised patient with high severity."
SeverityReason == "Severity >=6/10."
WorseningReason == "Symptoms worsening."
FeverImmunoReason == "Fever with immunocompromised status."
FirstTimeReason == "First-time symptoms with moderate severity (>=5/10)."
PregnancyFeverReason == "Pregnancy + fever (needs clinician evaluation)."
NoPcpUrgentReason == "No PCP access with symptoms likely needing in-person assessment."
StableModerateReason == "Stable symptoms with mild-moderate severity (3-5/10)."
RecurrentReason == "Recurrent similar symptoms with stable trend."
StableFeverReason == "Fever present but no red flags and overall stable by inputs."
NoPcpRerouteReason == "No PCP access; recommending urgent care instead."
DefaultReason == "No red flags or escalation criteria met based on provided inputs."

SPO2_THRESHOLD == 92

\* the f-string of the low-saturation reason
spo2_reason(spo2) == Spo2ReasonPrefix \o ToString(spo2[1]) \o "%)."

\* mutant: the threshold is not strict
spo2_low_inclusive(spo2) == spo2 # None /\ spo2[1] <= SPO2_THRESHOLD

\* spo2 is not None and int(spo2) < 92, for the integers the callers pass
spo2_low(spo2) == spo2 # None /\ spo2[1] < SPO2_THRESHOLD

\* mutant: the bleeding reason looks at the red flags only
red_flag_reasons_red_only(red_flags, injury_flags) ==
  << RedFlagReason >>
  \o (IF UncontrolledBleeding \in red_flags
      THEN << BleedingReason >> ELSE << >>)

\* STEP 1: the reasons of the red-flag hard stop
red_flag_reasons(red_flags, injury_flags) ==
  << RedFlagReason >>
  \o (IF UncontrolledBleeding \in red_flags \/ BleedingWontStop \in injury_flags
      THEN << BleedingReason >> ELSE << >>)

ed_injury(injury_flags) ==
  \E flag \in { "Obvious deformity", "Bone visible or deep open wound",
                BleedingWontStop, "Numbness or tingling" } :
     flag \in injury_flags

\* mutant: the pain rule compares with == where >= is meant
uc_injury_exact_severity(injury_flags, severity) ==
  \/ \E flag \in { "Unable to bear weight or use limb", "Severe swelling" } :
        flag \in injury_flags
  \/ severity = 6

\* mutant: pain alone does not ask for same-day care
uc_injury_flags_only(injury_flags, severity) ==
  \E flag \in { "Unable to bear weight or use limb", "Severe swelling" } :
     flag \in injury_flags

uc_injury(injury_flags, severity) ==
  \/ \E flag \in { "Unable to bear weight or use limb", "Severe swelling" } :
        flag \in injury_flags
  \/ severity >= 6

\* mutant: the home-care return of the injury block carries the first
\* safety note only
injury_result_short_notes(injury_flags, severity) ==
  IF ed_injury(injury_flags)
  THEN RoutingResult("ED", "Immediate", << InjuryEdReason >>, safety)
  ELSE IF uc_injury(injury_flags, severity)
  THEN RoutingResult("Urgent Care", "Same day", << InjuryUcReason >>, safety)
  ELSE RoutingResult("Self-care", "Monitor", << InjurySelfCareReason >>,
                     << safety[1] >>)

\* STEP 2, entered when the chief complaint is the injury one
injury_result(injury_flags, severity) ==
  IF ed_injury(injury_flags)
  THEN RoutingResult("ED", "Immediate", << InjuryEdReason >>, safety)
  ELSE IF uc_injury(injury_flags, severity)
  THEN RoutingResult("Urgent Care", "Same day", << InjuryUcReason >>, safety)
  ELSE RoutingResult("Self-care", "Monitor", << InjurySelfCareReason >>, safety)

has_heart(conditions) == HeartDisease \in conditions
has_lung(conditions) == ChronicLung \in conditions
immunocompromised(conditions) == Immunocompromised \in conditions

\* STEP 3: the four high-risk combinations
chest_combo(chief, conditions) ==
  chief = "Chest pain / pressure" /\ has_heart(conditions)

sob_combo(chief, conditions, trend) ==
  chief = "Shortness of breath" /\ has_lung(conditions) /\ trend = "Worse"

headache_combo(chief, severity, happened_before) ==
  chief = "Headache" /\ severity >= 7 /\ startswith(happened_before, "No")

\* mutant: the severity test is dropped
fever_combo_any_severity(fever, conditions, severity) ==
  fever = "Yes" /\ immunocompromised(conditions)

fever_combo(fever, conditions, severity) ==
  fever = "Yes" /\ immunocompromised(conditions) /\ severity >= 7

\* "if cond: triggers.append(reason)"
When(cond, reason) == IF cond THEN << reason >> ELSE << >>

\* mutant: the pregnancy + fever trigger is missing
urgent_triggers_no_pregnancy(severity, trend, fever, conditions, happened_before, pregnant, pcp_access) ==
  When(severity >= 6, SeverityReason)
  \o When(trend = "Worse", WorseningReason)
  \o When(fever = "Yes" /\ immunocompromised(conditions), FeverImmunoReason)
  \o When(startswith(happened_before, "No") /\ severity >= 5, FirstTimeReason)
  \o When(pcp_access = "No" /\ (severity >= 5 \/ fever = "Yes" \/ trend = "Worse"),
          NoPcpUrgentReason)

\* mutant: the fever + immunocompromised trigger is missing
urgent_triggers_no_fever_immuno(severity, trend, fever, conditions, happened_before, pregnant, pcp_access) ==
  When(severity >= 6, SeverityReason)
  \o When(trend = "Worse", WorseningReason)
  \o When(startswith(happened_before, "No") /\ severity >= 5, FirstTimeReason)
  \o When(pregnant = "Yes" /\ fever = "Yes", PregnancyFeverReason)
  \o When(pcp_access = "No" /\ (severity >= 5 \/ fever = "Yes" \/ trend = "Worse"),
          NoPcpUrgentReason)

\* mutant: the worsening trigger is missing
urgent_triggers_no_worsening(severity, trend, fever, conditions, happened_before, pregnant, pcp_access) ==
  When(severity >= 6, SeverityReason)
  \o When(fever = "Yes" /\ immunocompromised(conditions), FeverImmunoReason)
  \o When(startswith(happened_before, "No") /\ severity >= 5, FirstTimeReason)
  \o When(pregnant = "Yes" /\ fever = "Yes", PregnancyFeverReason)
  \o When(pcp_access = "No" /\ (severity >= 5 \/ fever = "Yes" \/ trend = "Worse"),
          NoPcpUrgentReason)

\* mutant: the severity trigger starts at 3, where the stable-moderate rule
\* of STEP 5 begins
urgent_triggers_from_3(severity, trend, fever, conditions, happened_before, pregnant, pcp_access) ==
  When(severity >= 3, SeverityReason)
  \o When(trend = "Worse", WorseningReason)
  \o When(fever = "Yes" /\ immunocompromised(conditions), FeverImmunoReason)
  \o When(startswith(happened_before, "No") /\ severity >= 5, FirstTimeReason)
  \o When(pregnant = "Yes" /\ fever = "Yes", PregnancyFeverReason)
  \o When(pcp_access = "No" /\ (severity >= 5 \/ fever = "Yes" \/ trend = "Worse"),
          NoPcpUrgentReason)

\* STEP 4: the urgent-care triggers, in the order they are appended
urgent_triggers(severity, trend, fever, conditions, happened_before, pregnant, pcp_access) ==
  When(severity >= 6, SeverityReason)
  \o When(trend = "Worse", WorseningReason)
  \o When(fever = "Yes" /\ immunocompromised(conditions), FeverImmunoReason)
  \o When(startswith(happened_before, "No") /\ severity >= 5, FirstTimeReason)
  \o When(pregnant = "Yes" /\ fever = "Yes", PregnancyFeverReason)
  \o When(pcp_access = "No" /\ (severity >= 5 \/ fever = "Yes" \/ trend = "Worse"),
          NoPcpUrgentReason)

\* mutant: an improving trend does not count as stable
stable_same_only(trend) == trend = "Same"

stable(trend) == trend \in { "Same", "Better" }

\* mutant: the recurrent-symptoms trigger is missing
pcp_triggers_no_recurrent(severity, trend, fever, happened_before) ==
  When(stable(trend) /\ 3 <= severity /\ severity <= 5, StableModerateReason)
  \o When(fever = "Yes" /\ stable(trend) /\ severity <= 5, StableFeverReason)

\* STEP 5: the primary-care triggers, in the order they are appended
pcp_triggers(severity, trend, fever, happened_before) ==
  When(stable(trend) /\ 3 <= severity /\ severity <= 5, StableModerateReason)
  \o When(startswith(happened_before, "Yes") /\ stable(trend), RecurrentReason)
  \o When(fever = "Yes" /\ stable(trend) /\ severity <= 5, StableFeverReason)

\* mutant: the reroute for patients without a PCP is missing
primary_care_result_no_reroute(pcp, pcp_access) ==
  IF pcp # << >> /\ pcp_access = "Yes"
  THEN RoutingResult("PCP", "24-72 hrs", pcp, safety)
  ELSE RoutingResult("Self-care", "Monitor", << DefaultReason >>, safety)

\* mutant: the reroute changes the route and keeps the primary-care urgency
primary_care_result_stale_urgency(pcp, pcp_access) ==
  IF pcp # << >> /\ pcp_access = "Yes"
  THEN RoutingResult("PCP", "24-72 hrs", pcp, safety)
  ELSE IF pcp # << >> /\ pcp_access = "No"
  THEN RoutingResult("Urgent Care", "24-72 hrs",
                     pcp \o << NoPcpRerouteReason >>, safety)
  ELSE RoutingResult("Self-care", "Monitor", << DefaultReason >>, safety)

\* the returns of STEP 5 and STEP 6
primary_care_result(pcp, pcp_access) ==
  IF pcp # << >> /\ pcp_access = "Yes"
  THEN RoutingResult("PCP", "24-72 hrs", pcp, safety)
  ELSE IF pcp # << >> /\ pcp_access = "No"
  THEN RoutingResult("Urgent Care", "Same day",
                     pcp \o << NoPcpRerouteReason >>, safety)
  ELSE RoutingResult("Self-care", "Monitor", << DefaultReason >>, safety)

\* a slip of the key: the access question answered for urgent care is read
\* where the primary-care one is meant
get_urgent_for_pcp(inp, key) ==
  IF key = "pcp_access" THEN inp["urgent_access"] ELSE inp[key]

\* inputs.get(key): every key route_patient asks for is in the record
get(inp, key) == inp[key]

route_patient(inp) ==
  LET chief == get(inp, "chief_complaint")
      severity == get(inp, "severity_0_10")
      trend == get(inp, "trend")
      fever == get(inp, "fever")
      happened_before == get(inp, "happened_before")
      pregnant == get(inp, "pregnant")
      conditions == normalize_conditions(get(inp, "conditions"))
      red_flags == get(inp, "red_flags")
      injury_flags == get(inp, "injury_flags")
      spo2 == get(inp, "spo2")
      pcp_access == get(inp, "pcp_access")
      urgent == urgent_triggers(severity, trend, fever, conditions,
                                happened_before, pregnant, pcp_access)
      pcp == pcp_triggers(severity, trend, fever, happened_before)
  IN
  IF _is_checked(red_flags)
  THEN RoutingResult("ED", "Immediate",
                     red_flag_reasons(red_flags, injury_flags), safety)
  ELSE IF spo2_low(spo2)
  THEN RoutingResult("ED", "Immediate", << spo2_reason(spo2) >>, safety)
  ELSE IF chief = InjuryWound
  THEN injury_result(injury_flags, severity)
  ELSE IF chest_combo(chief, conditions)
  THEN RoutingResult("ED", "Immediate", << ChestReason >>, safety)
  ELSE IF sob_combo(chief, conditions, trend)
  THEN RoutingResult("ED", "Immediate", << SobReason >>, safety)
  ELSE IF headache_combo(chief, severity, happened_before)
  THEN RoutingResult("ED", "Immediate", << HeadacheReason >>, safety)
  ELSE IF fever_combo(fever, conditions, severity)
  THEN RoutingResult("ED", "Immediate", << FeverImmunoEdReason >>, safety)
  ELSE IF urgent # << >>
  THEN RoutingResult("Urgent Care", "Same day", urgent, safety)
  ELSE primary_care_result(pcp, pcp_access)

-----------------------------------------------------------------------------
(* app.py: helpers *)

Digits == { "0", "1", "2", "3", "4", "5", "6", "7", "8", "9" }

DigitVal(c) ==
  CASE c = "0" -> 0 [] c = "1" -> 1 [] c = "2" -> 2 [] c = "3" -> 3
    [] c = "4" -> 4 [] c = "5" -> 5 [] c = "6" -> 6 [] c = "7" -> 7
    [] c = "8" -> 8 [] c = "9" -> 9

CharAt(s, i) == SubSeq(s, i, i)

\* str.strip for blanks
RECURSIVE strip(_)
strip(s) ==
  IF Len(s) = 0 THEN s
  ELSE IF CharAt(s, 1) = " " THEN strip(SubSeq(s, 2, Len(s)))
  ELSE IF CharAt(s, Len(s)) = " " THEN strip(SubSeq(s, 1, Len(s) - 1))
  ELSE s

AllDigits(s) == Len(s) > 0 /\ \A i \in 1..Len(s) : CharAt(s, i) \in Digits

RECURSIVE DigitsValue(_)
DigitsValue(s) ==
  IF Len(s) = 0 THEN 0
  ELSE 10 * DigitsValue(SubSeq(s, 1, Len(s) - 1)) + DigitVal(CharAt(s, Len(s)))

\* mutant: a text that is not a number reads as 0
parse_optional_int_zero(raw) ==
  LET s == strip(raw)
      signed == Len(s) > 0 /\ CharAt(s, 1) \in { "+", "-" }
      body == IF signed THEN SubSeq(s, 2, Len(s)) ELSE s
  IN IF Len(s) = 0 THEN None
     ELSE IF ~AllDigits(body) THEN Some(0)
     ELSE IF signed /\ CharAt(s, 1) = "-" THEN Some(0 - DigitsValue(body))
     ELSE Some(DigitsValue(body))

\* int(s) of a decimal literal with an optional sign; anything else is the
\* ValueError that parse_optional_int turns into None
parse_optional_int(raw) ==
  LET s == strip(raw)
      signed == Len(s) > 0 /\ CharAt(s, 1) \in { "+", "-" }
      body == IF signed THEN SubSeq(s, 2, Len(s)) ELSE s
  IN IF Len(s) = 0 THEN None
     ELSE IF ~AllDigits(body) THEN None
     ELSE IF signed /\ CharAt(s, 1) = "-" THEN Some(0 - DigitsValue(body))
     ELSE Some(DigitsValue(body))

\* float(s) of a plain decimal literal (digits, or digits "." digits) is the
\* pair <<whole part, digits after the point>>; any other text is the
\* ValueError that parse_optional_float turns into None
RECURSIVE PointAt(_, _)
PointAt(s, i) ==
  IF i > Len(s) THEN 0
  ELSE IF CharAt(s, i) = "." THEN i
  ELSE PointAt(s, i + 1)

parse_optional_float(raw) ==
  LET s == strip(raw)
      dot == PointAt(s, 1)
      whole == IF dot = 0 THEN s ELSE SubSeq(s, 1, dot - 1)
      frac == IF dot = 0 THEN "0" ELSE SubSeq(s, dot + 1, Len(s))
  IN IF Len(s) = 0 THEN None
     ELSE IF ~(AllDigits(whole) /\ AllDigits(frac)) THEN None
     ELSE Some(<< DigitsValue(whole), frac >>)

-----------------------------------------------------------------------------
(* app.py: the intake form *)

SelectKeys ==
  { "pregnant", "chief_complaint", "severity_0_10", "trend", "happened_before",
    "fever", "spo2_raw", "pcp_access" }

\* the widgets whose values are recorded and never read by the engine
AuditSelectKeys == { "age", "sex", "temp_f_raw", "hr_raw", "urgent_access" }

MultiKeys == { "red_flags", "conditions", "injury_flags" }

\* the texts typed into the SpO2 box
Spo2RawOptions ==
  { "", "n/a" }
  \cup { ToString(v) : v \in (SPO2_THRESHOLD - Spo2Span)..(SPO2_THRESHOLD + Spo2Span) }

\* the ages and the texts typed into the temperature and heart-rate boxes
AgeOptions == { AGE_MIN, AGE_DEFAULT, AGE_MAX }

TempRawOptions == { "", "101.6" }

HrRawOptions == { "", "105" }

Options(key) ==
  CASE key = "pregnant" -> PREGNANCY_OPTIONS
    [] key = "age" -> AgeOptions
    [] key = "sex" -> SEX_OPTIONS
    [] key = "temp_f_raw" -> TempRawOptions
    [] key = "hr_raw" -> HrRawOptions
    [] key = "urgent_access" -> URGENT_ACCESS_OPTIONS
    [] key = "chief_complaint" -> CHIEF_COMPLAINTS
    [] key = "severity_0_10" -> SEVERITY_MIN..SEVERITY_MAX
    [] key = "trend" -> TREND_OPTIONS
    [] key = "happened_before" -> HAPPENED_BEFORE_OPTIONS
    [] key = "fever" -> FEVER_OPTIONS
    [] key = "spo2_raw" -> Spo2RawOptions
    [] key = "pcp_access" -> PCP_ACCESS_OPTIONS
    [] key = "red_flags" -> RED_FLAGS
    [] key = "conditions" -> RISK_CONDITIONS
    [] key = "injury_flags" -> INJURY_FLAGS

\* the widgets' value= / index= / default= arguments
FormDefaults ==
  [ age |-> AGE_DEFAULT,
    sex |-> "Female",
    temp_f_raw |-> "",
    hr_raw |-> "",
    urgent_access |-> "Yes",
    pregnant |-> "Not applicable",
    chief_complaint |-> "Cough / sore throat",
    severity_0_10 |-> 4,
    trend |-> "Same",
    happened_before |-> "Not sure",
    fever |-> "Don't know / can't check",
    red_flags |-> {},
    conditions |-> { NoneOfTheAbove },
    spo2_raw |-> "",
    pcp_access |-> "Yes",
    injury_flags |-> {} ]

PresetNames == { "Person A", "Person B", "Person C", "Person D" }

PRESETS ==
  [ n \in PresetNames |->
      CASE n = "Person A" ->
             [ age |-> 58,
               sex |-> "Male",
               temp_f_raw |-> "",
               hr_raw |-> "",
               urgent_access |-> "Yes",
               pregnant |-> "Not applicable",
               chief_complaint |-> "Chest pain / pressure",
               severity_0_10 |-> 8,
               trend |-> "Worse",
               happened_before |-> "No - first time",
               fever |-> "No",
               red_flags |-> { "Severe chest pain/pressure" },
               conditions |-> { HeartDisease },
               spo2_raw |-> "",
               pcp_access |-> "Yes",
               injury_flags |-> {} ]
        [] n = "Person B" ->
             [ age |-> 45,
               sex |-> "Female",
               temp_f_raw |-> "101.6",
               hr_raw |-> "105",
               urgent_access |-> "Yes",
               pregnant |-> "No",
               chief_complaint |-> "Fever / infection symptoms",
               severity_0_10 |-> 6,
               trend |-> "Worse",
               happened_before |-> "Not sure",
               fever |-> "Yes",
               red_flags |-> {},
               conditions |-> { Immunocompromised },
               spo2_raw |-> "96",
               pcp_access |-> "Yes",
               injury_flags |-> {} ]
        [] n = "Person C" ->
             [ age |-> 29,
               sex |-> "Male",
               temp_f_raw |-> "",
               hr_raw |-> "",
               urgent_access |-> "Yes",
               pregnant |-> "Not applicable",
               chief_complaint |-> "Cough / sore throat",
               severity_0_10 |-> 2,
               trend |-> "Same",
               happened_before |-> "Yes - similar symptoms before",
               fever |-> "Don't know / can't check",
               red_flags |-> {},
               conditions |-> { NoneOfTheAbove },
               spo2_raw |-> "",
               pcp_access |-> "Yes",
               injury_flags |-> {} ]
        [] n = "Person D" ->
             [ age |-> 33,
               sex |-> "Male",
               temp_f_raw |-> "",
               hr_raw |-> "",
               urgent_access |-> "Yes",
               pregnant |-> "Not applicable",
               chief_complaint |-> InjuryWound,
               severity_0_10 |-> 6,
               trend |-> "Worse",
               happened_before |-> "No - first time",
               fever |-> "No",
               red_flags |-> {},
               conditions |-> { NoneOfTheAbove },
               spo2_raw |-> "",
               pcp_access |-> "No",
               injury_flags |-> { "Unable to bear weight or use limb" } ] ]

SymDiff(a, b) == (a \ b) \cup (b \ a)

\* Changed and Loaded serve the MaxEdits bound only: edits is the number of
\* widgets whose value differs from the one the form was last loaded with
Changed(a, b) == IF a = b THEN 0 ELSE 1

Loaded(name) == IF name = "" THEN FormDefaults ELSE PRESETS[name]

\* the dict built by the submit handler
build_inputs(s) ==
  [ age |-> s.age,
    sex |-> s.sex,
    temp_f |-> parse_optional_float(s.temp_f_raw),
    hr |-> parse_optional_int(s.hr_raw),
    urgent_access |-> s.urgent_access,
    pregnant |-> s.pregnant,
    chief_complaint |-> s.chief_complaint,
    severity_0_10 |-> s.severity_0_10,
    trend |-> s.trend,
    happened_before |-> s.happened_before,
    fever |-> s.fever,
    red_flags |-> s.red_flags,
    conditions |-> s.conditions,
    spo2 |-> parse_optional_int(s.spo2_raw),
    pcp_access |-> s.pcp_access,
    injury_flags |-> IF s.chief_complaint = InjuryWound
                     THEN s.injury_flags ELSE {} ]

NoInputs == [ age |-> 0, sex |-> "", temp_f |-> None,
              hr |-> None, urgent_access |-> "",
              pregnant |-> "", chief_complaint |-> "", severity_0_10 |-> 0,
              trend |-> "", happened_before |-> "", fever |-> "",
              red_flags |-> {}, conditions |-> {}, spo2 |-> None,
              pcp_access |-> "", injury_flags |-> {} ]

NoResult == RoutingResult("", "", << >>, << >>)

-----------------------------------------------------------------------------
(* app.py: the explanation and the exports.  A text of several lines is    *)
(* the sequence of its lines; the encounter id and timestamp lines and the *)
(* structured-inputs block of the summaries and of the prompt are left out *)

\* the imported SDK (None when the import failed) and OPENAI_API_KEY
OpenAIOptions == { None, Some("OpenAI") }

ApiKeyOptions == { "", "sk-demo" }

\* what the chat-completion call does: it returns a text, here one that
\* names another route than the engine may have chosen, or it raises
LlmReplies ==
  { [raised |-> FALSE, text |-> " Recommended care: Self-care (Monitor) "],
    [raised |-> TRUE, text |-> "Connection error." ] }

\* the reply of a service that is never asked
NoReply == [raised |-> TRUE, text |-> ""]

llm_enabled(sdk, api_key) ==
  IF sdk = None THEN FALSE ELSE strip(api_key) # ""

\* separator.join(items)
RECURSIVE Join(_, _)
Join(items, separator) ==
  IF Len(items) = 0 THEN ""
  ELSE IF Len(items) = 1 THEN items[1]
  ELSE items[1] \o separator \o Join(Tail(items), separator)

build_explanation_prompt(inp, routing) ==
  << "Routing decision (FINAL): " \o routing.route,
     "Urgency (FINAL): " \o routing.urgency,
     "Rule-based reasons: "
       \o (IF routing.reasons # << >> THEN Join(routing.reasons, ", ")
           ELSE "None provided") >>

\* mutant: an error of the call leaves the explanation empty
generate_llm_explanation_silent(prompt, reply) ==
  IF reply.raised THEN "" ELSE strip(reply.text)

\* the try / except around the chat-completion call
generate_llm_explanation(prompt, reply) ==
  IF reply.raised
  THEN "LLM explanation unavailable due to an error: " \o reply.text
  ELSE strip(reply.text)

format_patient_export(explanation, inp) ==
  << "PATIENT SUMMARY (MVP DEMO - NOT MEDICAL ADVICE)", "",
     strip(explanation) >>

format_clinician_export(inp, res) ==
  << "CLINICIAN SUMMARY (MVP DEMO - NOT MEDICAL ADVICE)", "",
     "Recommended care: " \o res.route \o " (" \o res.urgency \o ")", "",
     "Rule-based reasons:" >>
  \o (IF res.reasons # << >>
      THEN [i \in 1..Len(res.reasons) |-> "- " \o res.reasons[i]]
      ELSE << "- None" >>)

\* the files written into the share package, by name: each holds the text
\* (or, for "inputs", the record) it is named after
build_share_package_zip(patient_txt, clinician_txt, inp) ==
  (IF patient_txt # << >> THEN { "patient_summary" } ELSE {})
  \cup { "clinician_summary", "inputs" }

\* the submit handler after route_patient: what is shown and exported
render(inp, res, sdk, api_key, reply) ==
  LET enabled == llm_enabled(sdk, api_key)
      prompt == IF enabled THEN build_explanation_prompt(inp, res) ELSE << >>
      explanation == IF enabled THEN generate_llm_explanation(prompt, reply)
                     ELSE ""
      patient_txt == IF explanation # ""
                     THEN format_patient_export(explanation, inp) ELSE << >>
      clinician_txt == format_clinician_export(inp, res)
  IN [ route |-> res.route,
       urgency |-> res.urgency,
       why |-> res.reasons,
       safety_notes |-> res.safety_notes,
       narrative |-> IF ~enabled THEN "disabled"
                     ELSE IF reply.raised THEN "raised" ELSE "ok",
       prompt |-> prompt,
       explanation |-> explanation,
       patient_txt |-> patient_txt,
       clinician_txt |-> clinician_txt,
       share_zip |-> build_share_package_zip(patient_txt, clinician_txt, inp) ]

NoPage ==
  [ route |-> "", urgency |-> "", why |-> << >>, safety_notes |-> << >>,
    narrative |-> "", prompt |-> << >>, explanation |-> "",
    patient_txt |-> << >>, clinician_txt |-> << >>, share_zip |-> {} ]

Init ==
  /\ session = FormDefaults
  /\ loaded = ""
  /\ edits = 0
  /\ submitted = FALSE
  /\ inputs = NoInputs
  /\ result = NoResult
  /\ page = NoPage

\* a preset button: apply_preset writes the preset into the session state
apply_preset(name) ==
  /\ ~submitted
  /\ session' = PRESETS[name]
  /\ loaded' = name
  /\ edits' = 0
  /\ UNCHANGED <<submitted, inputs, result, page>>

\* the user changes a selectbox, the slider or the SpO2 text
SelectOption(key, value) ==
  /\ ~submitted
  /\ value # session[key]
  /\ edits' = edits - Changed(session[key], Loaded(loaded)[key])
                     + Changed(value, Loaded(loaded)[key])
  /\ edits' <= MaxEdits
  /\ session' = [session EXCEPT ![key] = value]
  /\ UNCHANGED <<loaded, submitted, inputs, result, page>>

\* the user ticks or unticks one item of a multiselect; the injury details
\* are only drawn under the injury complaint
ToggleOption(key, item) ==
  /\ ~submitted
  /\ key = "injury_flags" => session.chief_complaint = InjuryWound
  /\ edits' = IF (item \in session[key]) = (item \in Loaded(loaded)[key])
              THEN edits + 1 ELSE edits - 1
  /\ edits' <= MaxEdits
  /\ session' = [session EXCEPT ![key] = SymDiff(@, { item })]
  /\ UNCHANGED <<loaded, submitted, inputs, result, page>>

\* "Run Routing": the submit handler builds inputs, calls route_patient,
\* shows the result, asks for the explanation and writes the exports; the
\* SDK import, the API key and the service's reply are the environment's
Submit(sdk, api_key, reply) ==
  /\ ~submitted
  /\ submitted' = TRUE
  /\ inputs' = build_inputs(session)
  /\ result' = route_patient(inputs')
  /\ page' = render(inputs', result', sdk, api_key, reply)
  /\ UNCHANGED <<session, loaded, edits>>

\* any later interaction reruns the script with submitted = False
Rerun ==
  /\ submitted
  /\ submitted' = FALSE
  /\ inputs' = NoInputs
  /\ result' = NoResult
  /\ page' = NoPage
  /\ UNCHANGED <<session, loaded, edits>>

\* the app as shipped (no OPENAI_API_KEY in the environment, so the
\* explanation is disabled), the user working on the widgets the engine
\* reads
Next ==
  \/ \E name \in PresetNames : apply_preset(name)
  \/ \E key \in SelectKeys : \E value \in Options(key) : SelectOption(key, value)
  \/ \E key \in MultiKeys : \E item \in Options(key) : ToggleOption(key, item)
  \/ Submit(None, "", NoReply)
  \/ Rerun

Spec == Init /\ [][Next]_vars

\* the same app, the user also changing the audit-only widgets
NextAudit ==
  \/ \E name \in PresetNames : apply_preset(name)
  \/ \E key \in SelectKeys \cup AuditSelectKeys : \E value \in Options(key) :
        SelectOption(key, value)
  \/ \E key \in MultiKeys : \E item \in Options(key) : ToggleOption(key, item)
  \/ Submit(None, "", NoReply)
  \/ Rerun

SpecAudit == Init /\ [][NextAudit]_vars

\* the app in every environment: SDK installed or not, key set or not, the
\* service answering or failing
NextNarrative ==
  \/ \E name \in PresetNames : apply_preset(name)
  \/ \E key \in SelectKeys : \E value \in Options(key) : SelectOption(key, value)
  \/ \E key \in MultiKeys : \E item \in Options(key) : ToggleOption(key, item)
  \/ \E sdk \in OpenAIOptions : \E api_key \in ApiKeyOptions :
        \E reply \in LlmReplies : Submit(sdk, api_key, reply)
  \/ Rerun

SpecNarrative == Init /\ [][NextNarrative]_vars

-----------------------------------------------------------------------------
(* Properties.  They read the record handed to route_patient (inputs) and  *)
(* the result shown after "Run Routing" (result).                          *)

Routed == submitted

NoRedFlags == inputs.red_flags = {}

\* oxygen saturation absent or >= 92
OxygenOk == inputs.spo2 = None \/ inputs.spo2[1] >= 92

NonInjury == inputs.chief_complaint # InjuryWound

\* the selected conditions after the "None of the above" collapse
EffectiveConditions ==
  IF NoneOfTheAbove \in inputs.conditions THEN {} ELSE inputs.conditions

BeginsWithNo == startswith(inputs.happened_before, "No")
BeginsWithYes == startswith(inputs.happened_before, "Yes")

HasReason(reason) == \E i \in 1..Len(result.reasons) : result.reasons[i] = reason

\* the reasons, in table order, of the rows of a trigger table that hold
Collected(table) ==
  LET hit == SelectSeq(table, LAMBDA row : row.holds)
  IN [i \in 1..Len(hit) |-> hit[i].reason]

RouteRank(route) ==
  CASE route = "Self-care" -> 0
    [] route = "PCP" -> 1
    [] route = "Urgent Care" -> 2
    [] route = "ED" -> 3

\* C1: a record with a red flag is routed ED / Immediate and its reasons are
\* the red-flag sentence, followed by the bleeding sentence exactly when
\* "Uncontrolled bleeding" is a red flag or the unstoppable-bleeding injury
\* flag is selected; no reason of a later stage appears, whatever the other
\* fields are.
C1_RedFlagPrecedence ==
  (Routed /\ inputs.red_flags # {}) =>
     /\ result.route = "ED"
     /\ result.urgency = "Immediate"
     /\ result.reasons =
          IF \/ UncontrolledBleeding \in inputs.red_flags
             \/ BleedingWontStop \in inputs.injury_flags
          THEN << RedFlagReason, BleedingReason >>
          ELSE << RedFlagReason >>

\* a red flag together with chest pain and cardiac history (a stage-4
\* combination), answered with the red-flag sentence alone
C1_Witness ==
  /\ Routed
  /\ inputs.red_flags # {}
  /\ inputs.chief_complaint = "Chest pain / pressure"
  /\ HeartDisease \in EffectiveConditions
  /\ result.route = "ED"
  /\ result.reasons = << RedFlagReason >>

\* C2: an oxygen saturation below 92 is routed ED / Immediate whatever the
\* other fields are; without red flags the reasons are the one sentence that
\* cites the value; at 92 or more (or absent) the low-saturation sentence is
\* never given.
C2_OxygenHardStop ==
  Routed =>
     /\ (inputs.spo2 # None /\ inputs.spo2[1] < 92) =>
           /\ result.route = "ED"
           /\ result.urgency = "Immediate"
           /\ NoRedFlags =>
                result.reasons =
                  << Spo2ReasonPrefix \o ToString(inputs.spo2[1]) \o "%)." >>
     /\ OxygenOk =>
           \A i \in 1..Len(result.reasons) :
              ~startswith(result.reasons[i], Spo2ReasonPrefix)

\* saturation 91 typed for a stable mild complaint, no red flag
C2_Witness ==
  /\ Routed
  /\ inputs.spo2 = Some(91)
  /\ NoRedFlags
  /\ inputs.trend = "Same"
  /\ inputs.severity_0_10 <= 4
  /\ result.route = "ED"
  /\ Len(result.reasons) = 1

C3_EdFlags ==
  { "Obvious deformity", "Bone visible or deep open wound", BleedingWontStop,
    "Numbness or tingling" }

C3_UcFlags == { "Unable to bear weight or use limb", "Severe swelling" }

\* C3: an injury complaint without red flags and with oxygen absent or >= 92
\* is decided by injury_flags and severity alone: ED / Immediate on an
\* emergent flag, else Urgent Care / Same day on a same-day flag or severity
\* >= 6, else Self-care / Monitor; exactly one reason, never PCP.
C3_InjuryTerminal ==
  (Routed /\ ~NonInjury /\ NoRedFlags /\ OxygenOk) =>
     /\ Len(result.reasons) = 1
     /\ result.route # "PCP"
     /\ IF inputs.injury_flags \cap C3_EdFlags # {}
        THEN result.route = "ED" /\ result.urgency = "Immediate"
        ELSE IF inputs.injury_flags \cap C3_UcFlags # {} \/ inputs.severity_0_10 >= 6
        THEN result.route = "Urgent Care" /\ result.urgency = "Same day"
        ELSE result.route = "Self-care" /\ result.urgency = "Monitor"

\* an injury with a same-day flag and no PCP: Urgent Care, no reroute reason
C3_Witness ==
  /\ Routed
  /\ ~NonInjury
  /\ NoRedFlags
  /\ OxygenOk
  /\ inputs.pcp_access = "No"
  /\ inputs.injury_flags \cap C3_UcFlags # {}
  /\ result.route = "Urgent Care"
  /\ result.reasons = << InjuryUcReason >>

C4_Chest ==
  inputs.chief_complaint = "Chest pain / pressure" /\ HeartDisease \in EffectiveConditions

C4_Sob ==
  /\ inputs.chief_complaint = "Shortness of breath"
  /\ ChronicLung \in EffectiveConditions
  /\ inputs.trend = "Worse"

C4_Headache ==
  inputs.chief_complaint = "Headache" /\ inputs.severity_0_10 >= 7 /\ BeginsWithNo

C4_Fever ==
  /\ inputs.fever = "Yes"
  /\ Immunocompromised \in EffectiveConditions
  /\ inputs.severity_0_10 >= 7

C4_Any == C4_Chest \/ C4_Sob \/ C4_Headache \/ C4_Fever

\* C4: for a non-injury record without red flags and with oxygen absent or
\* >= 92, each of the four combinations (on the conditions left by the
\* "None of the above" collapse) gives ED / Immediate with exactly one
\* reason, that of the first combination that holds in the order chest,
\* breath, headache, fever; if none holds the route is not ED.
C4_HighRiskCombos ==
  (Routed /\ NonInjury /\ NoRedFlags /\ OxygenOk) =>
     IF C4_Any
     THEN /\ result.route = "ED"
          /\ result.urgency = "Immediate"
          /\ result.reasons =
               << IF C4_Chest THEN ChestReason
                  ELSE IF C4_Sob THEN SobReason
                  ELSE IF C4_Headache THEN HeadacheReason
                  ELSE FeverImmunoEdReason >>
     ELSE result.route # "ED"

\* two combinations hold at once and only the first is reported
C4_Witness ==
  /\ Routed
  /\ NonInjury
  /\ NoRedFlags
  /\ OxygenOk
  /\ C4_Fever
  /\ C4_Chest \/ C4_Sob \/ C4_Headache
  /\ result.route = "ED"
  /\ Len(result.reasons) = 1
  /\ result.reasons[1] # FeverImmunoEdReason

\* none of stages 1-4 fires
BeforeStage5 == NonInjury /\ NoRedFlags /\ OxygenOk /\ ~C4_Any

C5_Table ==
  << [holds |-> inputs.severity_0_10 >= 6, reason |-> SeverityReason],
     [holds |-> inputs.trend = "Worse", reason |-> WorseningReason],
     [holds |-> inputs.fever = "Yes" /\ Immunocompromised \in EffectiveConditions,
      reason |-> FeverImmunoReason],
     [holds |-> BeginsWithNo /\ inputs.severity_0_10 >= 5,
      reason |-> FirstTimeReason],
     [holds |-> inputs.pregnant = "Yes" /\ inputs.fever = "Yes",
      reason |-> PregnancyFeverReason],
     [holds |-> /\ inputs.pcp_access = "No"
                /\ \/ inputs.severity_0_10 >= 5
                   \/ inputs.fever = "Yes"
                   \/ inputs.trend = "Worse",
      reason |-> NoPcpUrgentReason] >>

C5_Reasons == { C5_Table[i].reason : i \in 1..Len(C5_Table) }

\* C5: when none of stages 1-4 fires, the result is Urgent Care / Same day
\* by stage 5 exactly when one of the six triggers holds, and the reasons are
\* then the sentences of all the triggers that hold, in the fixed order and
\* nothing else; when none holds no stage-5 sentence is given.
C5_UrgentCareAggregation ==
  (Routed /\ BeforeStage5) =>
     IF Collected(C5_Table) # << >>
     THEN /\ result.route = "Urgent Care"
          /\ result.urgency = "Same day"
          /\ result.reasons = Collected(C5_Table)
     ELSE \A i \in 1..Len(result.reasons) : result.reasons[i] \notin C5_Reasons

\* a pregnant patient with fever, stable mild symptoms and a PCP
C5_Witness ==
  /\ Routed
  /\ BeforeStage5
  /\ inputs.pregnant = "Yes"
  /\ inputs.fever = "Yes"
  /\ inputs.trend = "Same"
  /\ inputs.severity_0_10 <= 4
  /\ inputs.pcp_access = "Yes"
  /\ result.route = "Urgent Care"
  /\ result.reasons = << PregnancyFeverReason >>

C6_Stable == inputs.trend \in { "Same", "Better" }

C6_Table ==
  << [holds |-> C6_Stable /\ inputs.severity_0_10 \in 3..5,
      reason |-> StableModerateReason],
     [holds |-> BeginsWithYes /\ C6_Stable, reason |-> RecurrentReason],
     [holds |-> inputs.fever = "Yes" /\ C6_Stable /\ inputs.severity_0_10 <= 5,
      reason |-> StableFeverReason] >>

\* none of stages 1-5 fires
BeforeStage6 == BeforeStage5 /\ Collected(C5_Table) = << >>

\* C6: when none of stages 1-5 fires and a stage-6 trigger holds, the result
\* is PCP / 24-72 hrs with exactly the triggered reasons in order when
\* pcp_access = Yes, and Urgent Care / Same day with the triggered reasons
\* followed by the no-PCP-access reason when pcp_access = No (never PCP).
C6_PrimaryCareAndReroute ==
  (Routed /\ BeforeStage6 /\ Collected(C6_Table) # << >>) =>
     /\ inputs.pcp_access = "Yes" =>
          /\ result.route = "PCP"
          /\ result.urgency = "24-72 hrs"
          /\ result.reasons = Collected(C6_Table)
     /\ inputs.pcp_access = "No" =>
          /\ result.route = "Urgent Care"
          /\ result.urgency = "Same day"
          /\ result.reasons = Collected(C6_Table) \o << NoPcpRerouteReason >>

\* both outcomes are needed to see the claim: here the reroute
C6_Witness ==
  /\ Routed
  /\ BeforeStage6
  /\ Collected(C6_Table) # << >>
  /\ inputs.pcp_access = "No"
  /\ result.route = "Urgent Care"
  /\ result.reasons[Len(result.reasons)] = NoPcpRerouteReason

\* C7: a non-injury record is routed Self-care / Monitor exactly when no
\* condition of stages 1, 2, 4, 5 and 6 holds, and the reasons are then the
\* single default sentence; so a non-injury Self-care result has no red flag,
\* oxygen absent or >= 92, severity <= 2, trend not Worse, fever not Yes and
\* happened_before not beginning with "Yes".
C7_Default ==
  (Routed /\ NonInjury) =>
     /\ result.route = "Self-care" <=>
          (BeforeStage6 /\ Collected(C6_Table) = << >>)
     /\ result.route = "Self-care" =>
          /\ result.urgency = "Monitor"
          /\ result.reasons = << DefaultReason >>
          /\ NoRedFlags
          /\ OxygenOk
          /\ inputs.severity_0_10 <= 2
          /\ inputs.trend # "Worse"
          /\ inputs.fever # "Yes"
          /\ ~BeginsWithYes

C7_Witness ==
  /\ Routed
  /\ NonInjury
  /\ BeforeStage6
  /\ Collected(C6_Table) = << >>
  /\ result.route = "Self-care"
  /\ result.reasons = << DefaultReason >>

\* C8: with happened_before = "Not sure" neither the headache hard stop nor
\* the first-time trigger of stage 5 fires.
C8_NotSureIsNotFirstTime ==
  (Routed /\ inputs.happened_before = "Not sure") =>
     /\ ~HasReason(HeadacheReason)
     /\ ~HasReason(FirstTimeReason)

\* the same record with the other answer to "do you have a primary care doctor"
C9_With(access) == route_patient([inputs EXCEPT !.pcp_access = access])

\* C9: of two records that differ only in pcp_access, the one with No is
\* never routed lower than the one with Yes (Self-care < PCP < Urgent Care <
\* ED); when the routes differ, No has turned PCP or Self-care into Urgent
\* Care.
C9_AccessNeverLowers ==
  Routed =>
     /\ result = C9_With(inputs.pcp_access)
     /\ RouteRank(C9_With("No").route) >= RouteRank(C9_With("Yes").route)
     /\ C9_With("No").route # C9_With("Yes").route =>
          /\ C9_With("Yes").route \in { "PCP", "Self-care" }
          /\ C9_With("No").route = "Urgent Care"

\* a record rerouted by the lack of a PCP, whose twin with a PCP goes to PCP
C9_Witness ==
  /\ Routed
  /\ inputs.pcp_access = "No"
  /\ result.route = "Urgent Care"
  /\ C9_With("Yes").route = "PCP"

\* C10: a record whose conditions contain "None of the above" gets exactly
\* the result of the same record with no condition, whatever else is
\* selected with it; without the sentinel the conditions are used unchanged.
C10_NoneOfTheAboveCollapse ==
  Routed =>
     IF NoneOfTheAbove \in inputs.conditions
     THEN /\ normalize_conditions(inputs.conditions) = {}
          /\ result = route_patient([inputs EXCEPT !.conditions = {}])
     ELSE normalize_conditions(inputs.conditions) = inputs.conditions

\* chest pain with "None of the above" and cardiac history both ticked
C10_Witness ==
  /\ Routed
  /\ NoRedFlags
  /\ OxygenOk
  /\ inputs.chief_complaint = "Chest pain / pressure"
  /\ inputs.conditions = { NoneOfTheAbove, HeartDisease }
  /\ result.route # "ED"

-----------------------------------------------------------------------------
\* the fields the submit handler records but route_patient never asks for
AuditKeys == { "age", "sex", "temp_f", "hr", "urgent_access" }

\* the temperatures and heart rates the form's texts stand for
C11_Temperatures == { parse_optional_float(t) : t \in TempRawOptions }

C11_HeartRates == { parse_optional_int(t) : t \in HrRawOptions }

AuditValues(key) ==
  CASE key = "age" -> AgeOptions
    [] key = "sex" -> SEX_OPTIONS
    [] key = "temp_f" -> C11_Temperatures
    [] key = "hr" -> C11_HeartRates
    [] key = "urgent_access" -> URGENT_ACCESS_OPTIONS

\* the record with every audit-only field changed at once
C11_OtherAudit ==
  [inputs EXCEPT
     !.age = IF @ = AGE_MAX THEN AGE_MIN ELSE AGE_MAX,
     !.sex = IF @ = "Intersex" THEN "Female" ELSE "Intersex",
     !.temp_f = IF @ = None THEN Some(<< 103, "2" >>) ELSE None,
     !.hr = IF @ = None THEN Some(140) ELSE None,
     !.urgent_access = IF @ = "Yes" THEN "No" ELSE "Yes"]

\* C11: records that agree on the eleven routing fields get the same result
\* (route, urgency, reasons, safety notes): changing age, sex, temperature,
\* heart rate or the urgent-care access answer of the submitted record, one
\* at a time or all together, leaves route_patient's result as it is.
C11_AuditFieldsDoNotInterfere ==
  Routed =>
     /\ \A key \in AuditKeys : \A v \in AuditValues(key) \ { inputs[key] } :
          route_patient([inputs EXCEPT ![key] = v]) = result
     /\ route_patient(C11_OtherAudit) = result

\* a record without primary-care access but with urgent-care access, routed
\* by the access rule of stage 6, and a feverish one with vitals recorded
C11_Witness ==
  /\ Routed
  /\ inputs.urgent_access # inputs.pcp_access
  /\ inputs.hr # None
  /\ inputs.temp_f # None
  /\ result.route \in { "PCP", "Urgent Care" }

-----------------------------------------------------------------------------
\* C12: for a record whose chief complaint is not "Injury / wound", the
\* injury flags do not matter: the same record with any other selection of
\* injury flags gets the same route, urgency and reasons, also when a red
\* flag is selected.
C12_InjuryFlagsOnlyForInjury ==
  (Routed /\ NonInjury) =>
     \A flags \in SUBSET INJURY_FLAGS :
        LET other == route_patient([inputs EXCEPT !.injury_flags = flags])
        IN /\ other.route = result.route
           /\ other.urgency = result.urgency
           /\ other.reasons = result.reasons

-----------------------------------------------------------------------------
\* C14: whatever the record and whichever return is taken, the safety notes
\* of the result are the same two sentences in the same order.
C14_SafetyNotesFixed ==
  Routed =>
     result.safety_notes =
        << "If symptoms rapidly worsen, seek urgent evaluation.",
           "If you develop new red-flag symptoms (trouble breathing, fainting, severe chest pain, stroke signs), go to the ED." >>

\* the mildest return (home care for a minor injury) carries both notes
C14_Witness ==
  /\ Routed
  /\ inputs.chief_complaint = InjuryWound
  /\ result.route = "Self-care"
  /\ Len(result.safety_notes) = 2

\* the pairs of route and urgency a result may carry
C15_Pairs ==
  { << "ED", "Immediate" >>, << "Urgent Care", "Same day" >>,
    << "PCP", "24-72 hrs" >>, << "Self-care", "Monitor" >> }

\* C15: the route is one of ED, Urgent Care, PCP, Self-care, the urgency one
\* of Immediate, Same day, 24-72 hrs, Monitor, and they go together one to
\* one: ED with Immediate, Urgent Care with Same day, PCP with 24-72 hrs,
\* Self-care with Monitor.
C15_RouteUrgencyPairs ==
  Routed => << result.route, result.urgency >> \in C15_Pairs

\* the reroute of stage 6 changes route and urgency together
C15_Witness ==
  /\ Routed
  /\ HasReason(NoPcpRerouteReason)
  /\ result.route = "Urgent Care"
  /\ result.urgency = "Same day"

-----------------------------------------------------------------------------
\* the SpO2 texts that are blank or not a number
C16_UnknownText == session.spo2_raw \in { "", "n/a" }

\* C16: every submitted record gets a result with at least one reason; a
\* blank or non-numeric oxygen text reaches the engine as "absent", and for
\* a record with absent oxygen the hard stop is skipped: the result is the
\* one of the same record with any oxygen value from 92 to 100.
C16_TotalAndUnknownOxygen ==
  Routed =>
     /\ Len(result.reasons) >= 1
     /\ C16_UnknownText => inputs.spo2 = None
     /\ inputs.spo2 = None =>
          \A v \in SPO2_THRESHOLD..100 :
             route_patient([inputs EXCEPT !.spo2 = Some(v)]) = result

\* a non-numeric oxygen text on a record that is then routed by a later
\* stage
C16_Witness ==
  /\ Routed
  /\ session.spo2_raw = "n/a"
  /\ inputs.spo2 = None
  /\ result.route # "ED"

-----------------------------------------------------------------------------
\* the summary lines that carry the reasons
C17_ReasonLines == [i \in 1..Len(result.reasons) |-> "- " \o result.reasons[i]]

\* C17: whatever the narrative step does (disabled, a reply, an error), the
\* route, urgency and reasons shown and written to the clinician summary
\* are those route_patient returned; a prompt, when one is sent, already
\* carries that route and urgency; an error of the call ends as a plain
\* "unavailable" notice; the clinician summary and the raw inputs are
\* produced in every case.
C17_NarrativeDownstream ==
  Routed =>
     /\ page.narrative \in { "disabled", "ok", "raised" }
     /\ page.route = result.route
     /\ page.urgency = result.urgency
     /\ page.why = result.reasons
     /\ page.clinician_txt[3]
          = "Recommended care: " \o result.route \o " (" \o result.urgency \o ")"
     /\ SubSeq(page.clinician_txt, 6, Len(page.clinician_txt)) = C17_ReasonLines
     /\ page.narrative # "disabled" =>
          /\ page.prompt[1] = "Routing decision (FINAL): " \o result.route
          /\ page.prompt[2] = "Urgency (FINAL): " \o result.urgency
     /\ page.narrative = "raised" =>
          startswith(page.explanation, "LLM explanation unavailable due to an error: ")
     /\ page.clinician_txt # << >>
     /\ { "clinician_summary", "inputs" } \subseteq page.share_zip
     /\ (page.patient_txt # << >>) = ("patient_summary" \in page.share_zip)

\* the call fails on a record routed to the emergency department: the
\* notice takes the explanation's place and the clinician summary is there
C17_Witness ==
  /\ Routed
  /\ page.narrative = "raised"
  /\ result.route = "ED"
  /\ page.explanation # ""
  /\ Len(page.clinician_txt) >= 6
  /\ "clinician_summary" \in page.share_zip

-----------------------------------------------------------------------------
\* a non-injury record with fever "Yes" and "Immunocompromised" selected
\* without "None of the above"
C18_FeverImmuno ==
  /\ NonInjury
  /\ inputs.fever = "Yes"
  /\ Immunocompromised \in inputs.conditions
  /\ NoneOfTheAbove \notin inputs.conditions

\* C18: such a record is routed ED or Urgent Care whatever its trend,
\* severity and primary-care access; without red flag, with oxygen absent
\* or >= 92 and with no other high-risk combination, it is ED / Immediate
\* exactly when the severity is >= 7 and Urgent Care / Same day when the
\* severity is <= 6.
C18_FeverImmunoFloor ==
  (Routed /\ C18_FeverImmuno) =>
     /\ result.route \in { "ED", "Urgent Care" }
     /\ (NoRedFlags /\ OxygenOk /\ ~C4_Chest /\ ~C4_Sob /\ ~C4_Headache) =>
          /\ (result.route = "ED") = (inputs.severity_0_10 >= 7)
          /\ inputs.severity_0_10 >= 7 => result.urgency = "Immediate"
          /\ inputs.severity_0_10 <= 6 =>
               result.route = "Urgent Care" /\ result.urgency = "Same day"

\* a mild, stable fever of an immunocompromised patient with a primary-care
\* doctor: only the fever rule of stage 5 keeps it out of primary care
C18_Witness ==
  /\ Routed
  /\ C18_FeverImmuno
  /\ inputs.severity_0_10 <= 5
  /\ inputs.trend # "Worse"
  /\ inputs.pcp_access = "Yes"
  /\ result.route = "Urgent Care"
  /\ result.reasons = << FeverImmunoReason >>

-----------------------------------------------------------------------------
\* the submitted record with another severity
C19_AtSeverity(s) == route_patient([inputs EXCEPT !.severity_0_10 = s])

\* C19: among records that differ only in severity (0..10), a higher
\* severity never gets a less urgent route, in the order Self-care < PCP <
\* Urgent Care < ED: the upper bounds of the stage-6 rules never let a more
\* severe record fall to PCP or Self-care.
C19_SeverityMonotone ==
  Routed =>
     \A s \in SEVERITY_MIN..SEVERITY_MAX :
        LET rank == RouteRank(C19_AtSeverity(s).route)
        IN /\ s >= inputs.severity_0_10 => rank >= RouteRank(result.route)
           /\ s <= inputs.severity_0_10 => rank <= RouteRank(result.route)

\* a record inside the stable-moderate rule: Self-care below the rule, PCP
\* inside it, Urgent Care above it
C19_Witness ==
  /\ Routed
  /\ inputs.severity_0_10 = 4
  /\ result.route = "PCP"
  /\ C19_AtSeverity(2).route = "Self-care"
  /\ C19_AtSeverity(6).route = "Urgent Care"

-----------------------------------------------------------------------------
\* C20: a record routed to PCP has primary-care access "Yes", a complaint
\* other than the injury one, no red flag, oxygen absent or >= 92, a trend
\* of Same or Better, a severity <= 5 and not both pregnancy "Yes" and
\* fever "Yes"; and a non-injury record whose trend is Worse is never
\* routed to PCP or Self-care.
C20_PcpOnlyStableMild ==
  Routed =>
     /\ result.route = "PCP" =>
          /\ inputs.pcp_access = "Yes"
          /\ inputs.chief_complaint # InjuryWound
          /\ inputs.red_flags = {}
          /\ inputs.spo2 = None \/ inputs.spo2[1] >= 92
          /\ inputs.trend \in { "Same", "Better" }
          /\ inputs.severity_0_10 <= 5
          /\ ~(inputs.pregnant = "Yes" /\ inputs.fever = "Yes")
     /\ (inputs.chief_complaint # InjuryWound /\ inputs.trend = "Worse") =>
          result.route \notin { "PCP", "Self-care" }

\* a mild, recurrent, worsening complaint: nothing but the worsening
\* trigger of stage 5 sends it to urgent care
C20_Witness ==
  /\ Routed
  /\ inputs.chief_complaint # InjuryWound
  /\ inputs.trend = "Worse"
  /\ result.route = "Urgent Care"
  /\ result.reasons = << WorseningReason >>

-----------------------------------------------------------------------------
\* The forms the reachability claim is checked on.  Every widget the later
\* stages read takes every option (one condition ticked, nothing that
\* stops at stages 1-3) ...
C21_LateSessions ==
  [ age : { AGE_DEFAULT }, sex : { "Female" }, temp_f_raw : { "" },
    hr_raw : { "" }, urgent_access : { "Yes" },
    pregnant : PREGNANCY_OPTIONS,
    chief_complaint : CHIEF_COMPLAINTS \ { InjuryWound },
    severity_0_10 : SEVERITY_MIN..SEVERITY_MAX,
    trend : TREND_OPTIONS,
    happened_before : HAPPENED_BEFORE_OPTIONS,
    fever : FEVER_OPTIONS,
    red_flags : { {} },
    conditions : { { c } : c \in RISK_CONDITIONS },
    spo2_raw : { "" },
    pcp_access : PCP_ACCESS_OPTIONS,
    injury_flags : { {} } ]

\* ... and every input of stages 1-3 (no or one red flag, every oxygen
\* text, no or one injury flag, every severity) on an injury form and on
\* the default complaint
C21_EarlySessions ==
  [ age : { AGE_DEFAULT }, sex : { "Female" }, temp_f_raw : { "" },
    hr_raw : { "" }, urgent_access : { "Yes" },
    pregnant : { "Not applicable" },
    chief_complaint : { InjuryWound, "Cough / sore throat" },
    severity_0_10 : SEVERITY_MIN..SEVERITY_MAX,
    trend : { "Same" },
    happened_before : { "Not sure" },
    fever : { "No" },
    red_flags : { {} } \cup { { f } : f \in RED_FLAGS },
    conditions : { { NoneOfTheAbove } },
    spo2_raw : Spo2RawOptions,
    pcp_access : { "Yes" },
    injury_flags : { {} } \cup { { f } : f \in INJURY_FLAGS } ]

\* the results the engine gives for these forms
C21_Results ==
  { route_patient(build_inputs(s)) : s \in C21_LateSessions }
  \cup { route_patient(build_inputs(s)) : s \in C21_EarlySessions }

\* the sentence a reason is an instance of (the oxygen reason carries the
\* value)
C21_Sentence(reason) ==
  IF startswith(reason, Spo2ReasonPrefix) THEN Spo2ReasonPrefix ELSE reason

C21_Sentences(res) == { C21_Sentence(res.reasons[i]) : i \in 1..Len(res.reasons) }

C21_UrgentSentences ==
  { SeverityReason, WorseningReason, FeverImmunoReason, FirstTimeReason,
    PregnancyFeverReason, NoPcpUrgentReason }

C21_PcpSentences == { StableModerateReason, RecurrentReason, StableFeverReason }

C21_AllSentences ==
  { RedFlagReason, BleedingReason, Spo2ReasonPrefix,
    InjuryEdReason, InjuryUcReason, InjurySelfCareReason,
    ChestReason, SobReason, HeadacheReason, FeverImmunoEdReason,
    NoPcpRerouteReason, DefaultReason }
  \cup C21_UrgentSentences \cup C21_PcpSentences

\* the return statement a result comes from, read off its route and reasons
C21_Return(res) ==
  LET first == C21_Sentence(res.reasons[1])
      last == res.reasons[Len(res.reasons)]
  IN CASE first = RedFlagReason -> "red flag"
       [] first = Spo2ReasonPrefix -> "low oxygen"
       [] first = InjuryEdReason -> "injury: ED"
       [] first = InjuryUcReason -> "injury: urgent care"
       [] first = InjurySelfCareReason -> "injury: self-care"
       [] first = ChestReason -> "chest pain + cardiac history"
       [] first = SobReason -> "breathlessness + lung disease"
       [] first = HeadacheReason -> "severe first headache"
       [] first = FeverImmunoEdReason -> "fever + immunocompromised"
       [] first = DefaultReason -> "default"
       [] last = NoPcpRerouteReason -> "reroute without PCP"
       [] res.route = "PCP" -> "primary care"
       [] first \in C21_UrgentSentences -> "urgent triggers"
       [] OTHER -> "unknown"

C21_AllReturns ==
  { "red flag", "low oxygen", "injury: ED", "injury: urgent care",
    "injury: self-care", "chest pain + cardiac history",
    "breathlessness + lung disease", "severe first headache",
    "fever + immunocompromised", "urgent triggers", "primary care",
    "reroute without PCP", "default" }

\* each return and each sentence is produced for at least one of these forms
C21_AllProduced ==
  /\ \A return \in C21_AllReturns :
        \E res \in C21_Results : C21_Return(res) = return
  /\ \A sentence \in C21_AllSentences :
        \E res \in C21_Results : sentence \in C21_Sentences(res)

\* C21: no rule is shadowed by the stages ordered before it: a submitted form
\* is answered by one of the 13 returns of route_patient with some of the 21
\* reason sentences, and each of the 13 returns and each of the 21 sentences
\* is produced for at least one form a user can fill in.
C21_NoRuleShadowed ==
  /\ Cardinality(C21_AllReturns) = 13
  /\ Cardinality(C21_AllSentences) = 21
  /\ Routed => /\ C21_Return(result) \in C21_AllReturns
               /\ C21_Sentences(result) \subseteq C21_AllSentences
  /\ C21_AllProduced

\* the last trigger of the last stage fires alone: a mild, stable fever of a
\* patient with a primary-care doctor, submitted through the form
C21_Witness ==
  /\ Routed
  /\ result.route = "PCP"
  /\ result.reasons = << StableFeverReason >>
  /\ result \in C21_Results

====
